---------------------------- MODULE Spec2Model ----------------------------
(***************************************************************************)
(* WhatsAppsBot: the WhatsApp service (src/src/services/whatsappService.js),*)
(* the SQLite store (src/unnamed/part_000, required by the service as      *)
(* ../config/database), the HTTP API (src/src/api/server.js) and the       *)
(* application that starts them (src/app.js), as one state machine.        *)
(*                                                                         *)
(* Node runs every callback to completion, so an action is one callback:   *)
(* from the event or the settled promise that resumes the code up to the   *)
(* next await (or the return).  The position of an async function is the   *)
(* promise it is suspended on.  The chat client and the SQL engine are     *)
(* external: every promise they return settles later, either way.  A       *)
(* statement takes effect on the tables in the step that settles it: the   *)
(* connection is in parallel mode (serialize() wraps only the two CREATE   *)
(* TABLE statements), so statements in flight together run in an order the *)
(* engine chooses.                                                         *)
(***************************************************************************)
EXTENDS Integers, Sequences, FiniteSets

VARIABLES
    client,        \* WhatsAppService.client: "null" | "created"
    isReady,       \* WhatsAppService.isReady
    initRejected,  \* client.initialize() promises that rejected: .catch logged each
    reconnects,    \* history: calls of client.initialize() made by the 'disconnected' listener
    disconnects,   \* history: 'disconnected' events delivered
    authFailures,  \* history: 'auth_failure' events delivered
    lifecycle,     \* history: the last lifecycle event: "constructed" | "ready" | "disconnected"
    subscribers,   \* table subscribers, in rowid order
    messages,      \* table messages, in rowid order
    addLog,        \* history: the arguments of every addSubscriber call that resolved, in that order
    handlers,      \* one record per 'message' event: the run of the async listener
    sendCalls,     \* one record per sendMessage(to, message) call
    broadcasts,    \* one record per broadcastMessage(message) call
    boot,          \* WhatsAppBot.initialize(): the promise it is suspended on, or how it ended
    db,            \* Database.db: "null" | "open" | "closed" (a handle whose connection is released)
    closeLog,      \* history: one record per Database.close() call
    server,        \* ApiServer.server: "null" | "starting" | "listening" | "closed"
    requests       \* one record per HTTP request to POST /api/send or POST /api/broadcast

\* The service and the tables.
serviceVars == <<client, isReady, initRejected, reconnects, disconnects,
                 authFailures, lifecycle, subscribers, messages, addLog, handlers, sendCalls,
                 broadcasts>>

\* The application around them.  The actions of the service and of the store say
\* nothing about these; the step that takes such an action says what becomes of them.
appVars == <<boot, db, closeLog, server, requests>>

vars == <<client, isReady, initRejected, reconnects, disconnects,
          authFailures, lifecycle, subscribers, messages, addLog, handlers, sendCalls, broadcasts,
          boot, db, closeLog, server, requests>>

(***************************************************************************)
(* Bounds of the model.                                                    *)
(***************************************************************************)
MaxMsgs == 2
MaxSends == 1
MaxBroadcasts == 1
\* Broadcasts in flight together in the runs of SpecConcurrent.
MaxConcurrent == 2
MaxDisconnects == 2
MaxAuthFailures == 1
\* Calls of database.close() in one run.
MaxCloses == 2
\* Recorded moves of the environment in one run, of all kinds together: events
\* delivered, API calls made, initializations rejected.
MaxOps == 3
\* The same for the runs of the HTTP API: requests made and 'disconnected' events.
MaxApiOps == 2

\* msg.from values: strings as character sequences, so that split('@') is computed.
Senders == { <<"5", "@", "c">>, <<"7", "@", "c">> }
\* msg.body values.
Bodies == { "HOLA", "bye" }
\* msg.body values for the command dispatch: every command in several letter cases,
\* and bodies that are not commands: a command inside a longer text, with a space
\* before it, without its '!', and the empty body.
CommandBodies ==
    { "hola", "HOLA", "Hola", "hOLa", "!info", "!INFO", "!Info",
      "!ayuda", "!AYUDA", "!Ayuda", "!help", "!HELP", "!hElp",
      "bye", "", "hola!", "HOLA!", " hola", "hola amigo", "info", "INFO",
      "ayuda", "!helps", "!HELPS" }

Min(S) == CHOOSE x \in S : \A y \in S : x <= y

Ops == Len(handlers) + Len(sendCalls) + Len(broadcasts) + disconnects + authFailures + initRejected

(***************************************************************************)
(* The store.  A statement's outcomes are the pairs (error, table after):  *)
(* the engine may fail any statement ("SQLITE_ERROR": I/O, lock, no        *)
(* connection) and then changes nothing.  Foreign keys are not enforced    *)
(* (the connection never turns them on).                                   *)
(***************************************************************************)
HasSubscriber(table, whatsappId) ==
    \E i \in 1..Len(table) : table[i].whatsapp_id = whatsappId

SubscriberRow(table, whatsappId, phoneNumber, firstMessage) ==
    [id |-> Len(table) + 1, whatsapp_id |-> whatsappId,
     phone_number |-> phoneNumber, first_message |-> firstMessage]

\* INSERT without OR IGNORE: the UNIQUE column rejects a second row.
InsertSubscriberPlain(table, whatsappId, phoneNumber, firstMessage) ==
    IF HasSubscriber(table, whatsappId)
    THEN { [err |-> "SQLITE_CONSTRAINT", table |-> table] }
    ELSE { [err |-> "none",
            table |-> Append(table, SubscriberRow(table, whatsappId, phoneNumber, firstMessage))],
           [err |-> "SQLITE_ERROR", table |-> table] }

\* INSERT OR REPLACE: the row of an existing identity is replaced.
InsertSubscriberReplace(table, whatsappId, phoneNumber, firstMessage) ==
    { [err |-> "none",
       table |-> IF HasSubscriber(table, whatsappId)
                 THEN [i \in 1..Len(table) |->
                          IF table[i].whatsapp_id = whatsappId
                          THEN [table[i] EXCEPT !.phone_number = phoneNumber,
                                                !.first_message = firstMessage]
                          ELSE table[i]]
                 ELSE Append(table, SubscriberRow(table, whatsappId, phoneNumber, firstMessage))],
      [err |-> "SQLITE_ERROR", table |-> table] }

\* An INSERT whose promise resolves although the row was not written.
InsertSubscriberLost(table, whatsappId, phoneNumber, firstMessage) ==
    { [err |-> "none",
       table |-> IF HasSubscriber(table, whatsappId)
                 THEN table
                 ELSE Append(table, SubscriberRow(table, whatsappId, phoneNumber, firstMessage))],
      [err |-> "none", table |-> table] }

\* INSERT OR IGNORE INTO subscribers (whatsapp_id, phone_number, first_message),
\* whatsapp_id TEXT UNIQUE.
InsertSubscriber(table, whatsappId, phoneNumber, firstMessage) ==
    { [err |-> "none",
       table |-> IF HasSubscriber(table, whatsappId)
                 THEN table
                 ELSE Append(table, SubscriberRow(table, whatsappId, phoneNumber, firstMessage))],
      [err |-> "SQLITE_ERROR", table |-> table] }

MessageRow(table, whatsappId, message) ==
    [id |-> Len(table) + 1, whatsapp_id |-> whatsappId, message |-> message]

\* A write that overwrites the newest row instead of adding one.
InsertMessageOverwrite(table, whatsappId, message) ==
    { [err |-> "none",
       table |-> IF table = <<>>
                 THEN <<MessageRow(table, whatsappId, message)>>
                 ELSE [table EXCEPT ![Len(table)] =
                          [id |-> Len(table), whatsapp_id |-> whatsappId, message |-> message]]],
      [err |-> "SQLITE_ERROR", table |-> table] }

\* INSERT INTO messages (whatsapp_id, message)
InsertMessage(table, whatsappId, message) ==
    { [err |-> "none", table |-> Append(table, MessageRow(table, whatsappId, message))],
      [err |-> "SQLITE_ERROR", table |-> table] }

\* SELECT * FROM subscribers
SelectSubscribers(table) ==
    { [err |-> "none", rows |-> table], [err |-> "SQLITE_ERROR", rows |-> <<>>] }

(***************************************************************************)
(* Pure parts of the 'message' listener.                                   *)
(***************************************************************************)
\* msg.from.split('@')[0]
PhoneNumber(from) ==
    LET at == { i \in 1..Len(from) : from[i] = "@" }
    IN  IF at = {} THEN from ELSE SubSeq(from, 1, Min(at) - 1)

\* A comparison of the body as it came, without toLowerCase.
ToLowerCaseOmitted(body) == body

\* String.prototype.toLowerCase on the bodies of the model: every body that has an
\* upper-case letter is listed with its lower-case form.
ToLowerCase(body) ==
    CASE body = "HOLA" -> "hola"
      [] body = "Hola" -> "hola"
      [] body = "hOLa" -> "hola"
      [] body = "HOLA!" -> "hola!"
      [] body = "!INFO" -> "!info"
      [] body = "!Info" -> "!info"
      [] body = "INFO" -> "info"
      [] body = "!AYUDA" -> "!ayuda"
      [] body = "!Ayuda" -> "!ayuda"
      [] body = "!HELP" -> "!help"
      [] body = "!hElp" -> "!help"
      [] body = "!HELPS" -> "!helps"
      [] OTHER -> body

\* The reply handleCommands sends for a body, "none" when it sends none.
CommandReply(body) ==
    LET command == ToLowerCase(body)
    IN  IF command = "hola" THEN "greeting"
        ELSE IF command = "!info" THEN "info"
        ELSE IF command = "!ayuda" \/ command = "!help" THEN "help"
        ELSE "none"

(***************************************************************************)
(* The state after construction (the singletons are built on require; the  *)
(* model starts on a new database file).                                   *)
(***************************************************************************)
Init ==
    /\ client = "null"
    /\ isReady = FALSE
    /\ initRejected = 0
    /\ reconnects = 0
    /\ disconnects = 0
    /\ authFailures = 0
    /\ lifecycle = "constructed"
    /\ subscribers = <<>>
    /\ messages = <<>>
    /\ addLog = <<>>
    /\ handlers = <<>>
    /\ sendCalls = <<>>
    /\ broadcasts = <<>>
    /\ boot = "start"
    /\ db = "null"
    /\ closeLog = <<>>
    /\ server = "null"
    /\ requests = <<>>

(***************************************************************************)
(* The client's lifecycle.                                                 *)
(***************************************************************************)
\* WhatsAppService.initialize(): new Client, setupEventHandlers, client.initialize().
Initialize ==
    /\ client = "null"
    /\ client' = "created"
    /\ UNCHANGED <<isReady, initRejected, reconnects, disconnects, authFailures, lifecycle,
                   subscribers, messages, addLog, handlers, sendCalls, broadcasts>>

\* Calls of client.initialize() so far: one by initialize(), one by each 'disconnected'.
\* Nothing is registered on the promise but .catch, so only a rejection runs code.
InitCalls == (IF client = "created" THEN 1 ELSE 0) + reconnects

\* A rejected client.initialize() that calls initialize again.
InitializeRejectedRetry ==
    /\ initRejected < InitCalls
    /\ initRejected' = initRejected + 1
    /\ reconnects' = reconnects + 1
    /\ UNCHANGED <<client, isReady, disconnects, authFailures,
                   lifecycle, subscribers, messages, addLog, handlers, sendCalls, broadcasts>>

\* The promise of a client.initialize() call rejects: .catch logs the error.
InitializeRejected ==
    /\ initRejected < InitCalls
    /\ initRejected' = initRejected + 1
    /\ UNCHANGED <<client, isReady, reconnects, disconnects, authFailures,
                   lifecycle, subscribers, messages, addLog, handlers, sendCalls, broadcasts>>

\* 'qr': prints the code.
Qr ==
    /\ client = "created"
    /\ UNCHANGED vars

\* 'ready'
Ready ==
    /\ client = "created"
    /\ isReady' = TRUE
    /\ lifecycle' = "ready"
    /\ UNCHANGED <<client, initRejected, reconnects, disconnects, authFailures,
                   subscribers, messages, addLog, handlers, sendCalls, broadcasts>>

\* 'disconnected': isReady = false, then client.initialize().catch(log).
Disconnected ==
    /\ client = "created"
    /\ isReady' = FALSE
    /\ lifecycle' = "disconnected"
    /\ disconnects' = disconnects + 1
    /\ reconnects' = reconnects + 1
    /\ UNCHANGED <<client, initRejected, authFailures,
                   subscribers, messages, addLog, handlers, sendCalls, broadcasts>>

\* An 'auth_failure' listener that also marks the client not ready.
AuthFailureNotReady ==
    /\ client = "created"
    /\ authFailures' = authFailures + 1
    /\ isReady' = FALSE
    /\ UNCHANGED <<client, initRejected, reconnects, disconnects,
                   lifecycle, subscribers, messages, addLog, handlers, sendCalls, broadcasts>>

\* 'auth_failure': logs the error.
AuthFailure ==
    /\ client = "created"
    /\ authFailures' = authFailures + 1
    /\ UNCHANGED <<client, isReady, initRejected, reconnects, disconnects,
                   lifecycle, subscribers, messages, addLog, handlers, sendCalls, broadcasts>>

(***************************************************************************)
(* The 'message' listener.  A handler record is one run of it:             *)
(*   pc     the promise it is suspended on: "addSubscriber", "logMessage", *)
(*          "reply" (msg.reply inside handleCommands), or "done" once the  *)
(*          listener's promise has resolved ("rejected": it rejected);     *)
(*   trace  history: every call it made and how each ended;                *)
(*   logCall, logSeen, logRow  history: its logMessage call was the        *)
(*          logCall-th made by any handler, messages had logSeen rows      *)
(*          then, and the call wrote the row with rowid logRow (0: none).  *)
(***************************************************************************)
Ev(h, step, what) == [h EXCEPT !.trace = Append(@, <<step, what>>)]

\* The logMessage calls made so far.
LogCalls ==
    Cardinality({ h \in 1..Len(handlers) :
                    \E k \in 1..Len(handlers[h].trace) :
                        handlers[h].trace[k] = <<"logMessage", "call">> })

\* The listener's promise rejects: no catch around the body.
MessageCatchMissing(h) == [h EXCEPT !.pc = "rejected"]

\* A catch that logs the error and still answers the command.
MessageCatchReplies(h) ==
    IF CommandReply(h.body) = "none"
    THEN [h EXCEPT !.pc = "done"]
    ELSE [Ev(h, "reply", "call") EXCEPT !.pc = "reply", !.reply = CommandReply(h.body)]

\* catch (error) { console.error(...) } of the listener: its promise resolves.
MessageCatch(h) == [h EXCEPT !.pc = "done"]

\* await this.handleCommands(msg): a reply is awaited when the body is a command;
\* otherwise handleCommands returns and the listener ends.
CallHandleCommands(h) ==
    LET c == Ev(h, "handleCommands", "call")
    IN  IF CommandReply(h.body) = "none"
        THEN [Ev(c, "handleCommands", "ok") EXCEPT !.pc = "done"]
        ELSE [Ev(c, "reply", "call") EXCEPT !.pc = "reply", !.reply = CommandReply(h.body)]

\* A listener that goes on to the commands without logging the message.
CallLogMessageSkipped(h, rows) == CallHandleCommands(h)

\* await database.logMessage(msg.from, msg.body)
CallLogMessage(h, rows) ==
    [Ev(h, "logMessage", "call") EXCEPT !.pc = "logMessage", !.logSeen = rows,
                                        !.logCall = LogCalls + 1]

\* The listener up to its first await: database.addSubscriber(msg.from, phoneNumber, msg.body).
CallAddSubscriber(from, body) ==
    [from |-> from, body |-> body, phoneNumber |-> PhoneNumber(from),
     pc |-> "addSubscriber", trace |-> << <<"addSubscriber", "call">> >>,
     logCall |-> 0, logSeen |-> 0, logRow |-> 0, reply |-> "none"]

\* 'message'
Message(from, body) ==
    /\ client = "created"
    /\ handlers' = Append(handlers, CallAddSubscriber(from, body))
    /\ UNCHANGED <<client, isReady, initRejected, reconnects, disconnects,
                   authFailures, lifecycle, subscribers, messages, addLog, sendCalls, broadcasts>>

\* The INSERT of addSubscriber runs and its promise settles; on success the listener
\* goes on to logMessage.
AddSubscriberSettled(h) ==
    /\ handlers[h].pc = "addSubscriber"
    /\ LET m == handlers[h]
       IN  \E out \in InsertSubscriber(subscribers, m.from, m.phoneNumber, m.body) :
               /\ subscribers' = out.table
               /\ IF out.err = "none"
                  THEN /\ addLog' = Append(addLog, [whatsapp_id |-> m.from,
                                                    phone_number |-> m.phoneNumber,
                                                    first_message |-> m.body])
                       /\ handlers' = [handlers EXCEPT ![h] =
                              CallLogMessage(Ev(m, "addSubscriber", "ok"), Len(messages))]
                  ELSE /\ addLog' = addLog
                       /\ handlers' = [handlers EXCEPT ![h] =
                              MessageCatch(Ev(m, "addSubscriber", out.err))]
    /\ UNCHANGED <<client, isReady, initRejected, reconnects, disconnects,
                   authFailures, lifecycle, messages, sendCalls, broadcasts>>

\* The INSERT of logMessage runs and its promise settles; on success the listener
\* goes on to handleCommands.
LogMessageSettled(h) ==
    /\ handlers[h].pc = "logMessage"
    /\ LET m == handlers[h]
       IN  \E out \in InsertMessage(messages, m.from, m.body) :
               /\ messages' = out.table
               /\ IF out.err = "none"
                  THEN handlers' = [handlers EXCEPT ![h] =
                           CallHandleCommands([Ev(m, "logMessage", "ok")
                                                  EXCEPT !.logRow = Len(out.table)])]
                  ELSE handlers' = [handlers EXCEPT ![h] =
                           MessageCatch(Ev(m, "logMessage", out.err))]
    /\ UNCHANGED <<client, isReady, initRejected, reconnects, disconnects,
                   authFailures, lifecycle, subscribers, addLog, sendCalls, broadcasts>>

\* msg.reply settles: a rejection is caught and logged inside handleCommands, which
\* returns either way, and the listener ends.
ReplySettled(h, ok) ==
    /\ handlers[h].pc = "reply"
    /\ handlers' = [handlers EXCEPT ![h] =
           [Ev(Ev(@, "reply", IF ok THEN "ok" ELSE "error"), "handleCommands", "ok")
               EXCEPT !.pc = "done"]]
    /\ UNCHANGED <<client, isReady, initRejected, reconnects, disconnects,
                   authFailures, lifecycle, subscribers, messages, addLog, sendCalls, broadcasts>>

(***************************************************************************)
(* sendMessage(to, message).  A call record:                               *)
(*   pc      "send" while client.sendMessage is awaited, "done" once the   *)
(*           call has returned;                                            *)
(*   result  "pending", then "true" or "false";                            *)
(*   issued  history: whether it called client.sendMessage;                *)
(*   lifecycleAtCall, authFailuresAtCall  history: the last lifecycle event *)
(*           and the auth failures delivered when the call was made.       *)
(***************************************************************************)
\* sendMessage without the readiness check.
SendMessageCallUnchecked(to, ready) ==
    [to |-> to, pc |-> "send", result |-> "pending", issued |-> TRUE,
     lifecycleAtCall |-> lifecycle, authFailuresAtCall |-> authFailures]

\* sendMessage up to its first await, or to return false when not ready.
SendMessageCall(to, ready) ==
    IF ~ready
    THEN [to |-> to, pc |-> "done", result |-> "false", issued |-> FALSE,
          lifecycleAtCall |-> lifecycle, authFailuresAtCall |-> authFailures]
    ELSE [to |-> to, pc |-> "send", result |-> "pending", issued |-> TRUE,
          lifecycleAtCall |-> lifecycle, authFailuresAtCall |-> authFailures]

SendMessage(to) ==
    /\ sendCalls' = Append(sendCalls, SendMessageCall(to, isReady))
    /\ UNCHANGED <<client, isReady, initRejected, reconnects, disconnects,
                   authFailures, lifecycle, subscribers, messages, addLog, handlers, broadcasts>>

\* A sendMessage whose catch also marks the client not ready.
SendMessageSettledResets(s, ok) ==
    /\ sendCalls[s].pc = "send"
    /\ sendCalls' = [sendCalls EXCEPT ![s].pc = "done",
                                      ![s].result = IF ok THEN "true" ELSE "false"]
    /\ isReady' = (isReady /\ ok)
    /\ UNCHANGED <<client, initRejected, reconnects, disconnects,
                   authFailures, lifecycle, subscribers, messages, addLog, handlers, broadcasts>>

\* client.sendMessage settles: return true, or catch, log and return false.
SendMessageSettled(s, ok) ==
    /\ sendCalls[s].pc = "send"
    /\ sendCalls' = [sendCalls EXCEPT ![s].pc = "done",
                                      ![s].result = IF ok THEN "true" ELSE "false"]
    /\ UNCHANGED <<client, isReady, initRejected, reconnects, disconnects,
                   authFailures, lifecycle, subscribers, messages, addLog, handlers, broadcasts>>

(***************************************************************************)
(* broadcastMessage(message).  A call record:                              *)
(*   pc      "list" while getAllSubscribers is awaited, "send" while a     *)
(*           client.sendMessage is awaited, "done" once it has returned;   *)
(*   subscribers, i, success, failed  the locals of the loop: the rows     *)
(*           read, how many of them the loop has taken, the counters;      *)
(*   result  the tally returned (-1, -1 until then);                       *)
(*   listed  history: "no", or how getAllSubscribers ended: "ok", "err";   *)
(*   attempts  history: every client.sendMessage call it made, in order,   *)
(*           with its outcome "pending", "resolved" or "rejected", and     *)
(*           isReady as it was when the call was made.                     *)
(***************************************************************************)
Tally(success, failed) == [success |-> success, failed |-> failed]

\* broadcastMessage without the readiness check.
BroadcastCallUnchecked(ready) ==
    [pc |-> "list", subscribers |-> <<>>, i |-> 0, success |-> 0, failed |-> 0,
     result |-> Tally(-1, -1), listed |-> "no", attempts |-> <<>>,
     lifecycleAtCall |-> lifecycle, authFailuresAtCall |-> authFailures]

\* broadcastMessage up to await database.getAllSubscribers(), or to its early return.
BroadcastCall(ready) ==
    IF ~ready
    THEN [pc |-> "done", subscribers |-> <<>>, i |-> 0, success |-> 0, failed |-> 0,
          result |-> Tally(0, 0), listed |-> "no", attempts |-> <<>>,
          lifecycleAtCall |-> lifecycle, authFailuresAtCall |-> authFailures]
    ELSE [pc |-> "list", subscribers |-> <<>>, i |-> 0, success |-> 0, failed |-> 0,
          result |-> Tally(-1, -1), listed |-> "no", attempts |-> <<>>,
          lifecycleAtCall |-> lifecycle, authFailuresAtCall |-> authFailures]

BroadcastMessage ==
    /\ broadcasts' = Append(broadcasts, BroadcastCall(isReady))
    /\ UNCHANGED <<client, isReady, initRejected, reconnects, disconnects,
                   authFailures, lifecycle, subscribers, messages, addLog, handlers, sendCalls>>

\* A loop that starts the sends to all remaining subscribers without awaiting each.
IterateAllAtOnce(r) ==
    IF r.i < Len(r.subscribers)
    THEN [r EXCEPT !.pc = "send", !.i = @ + 1,
                   !.attempts = @ \o [k \in 1..(Len(r.subscribers) - Len(r.attempts)) |->
                                         [to |-> r.subscribers[Len(r.attempts) + k].whatsapp_id,
                                          outcome |-> "pending", ready |-> isReady]]]
    ELSE [r EXCEPT !.pc = "done", !.result = Tally(r.success, r.failed)]

\* A loop over the table as it is now, not over the rows read at the start.
IterateLiveTable(r) ==
    IF r.i < Len(subscribers)
    THEN [r EXCEPT !.pc = "send", !.i = @ + 1,
                   !.attempts = Append(@, [to |-> subscribers[r.i + 1].whatsapp_id,
                                           outcome |-> "pending", ready |-> isReady])]
    ELSE [r EXCEPT !.pc = "done", !.result = Tally(r.success, r.failed)]

\* A loop that checks isReady before each send and returns when the client is not ready.
IterateWhileReady(r) ==
    IF r.i < Len(r.subscribers) /\ isReady
    THEN [r EXCEPT !.pc = "send", !.i = @ + 1,
                   !.attempts = Append(@, [to |-> r.subscribers[r.i + 1].whatsapp_id,
                                           outcome |-> "pending", ready |-> isReady])]
    ELSE [r EXCEPT !.pc = "done", !.result = Tally(r.success, r.failed)]

\* for (const subscriber of subscribers): take the next row and await
\* client.sendMessage(subscriber.whatsapp_id, message), or leave the loop and
\* return { success, failed }.
Iterate(r) ==
    IF r.i < Len(r.subscribers)
    THEN [r EXCEPT !.pc = "send", !.i = @ + 1,
                   !.attempts = Append(@, [to |-> r.subscribers[r.i + 1].whatsapp_id,
                                           outcome |-> "pending", ready |-> isReady])]
    ELSE [r EXCEPT !.pc = "done", !.result = Tally(r.success, r.failed)]

\* A loop that a rejected send ends.
AfterSendAbortOnFailure(r, ok) ==
    IF ok
    THEN Iterate([r EXCEPT !.success = @ + 1, !.attempts[r.i].outcome = "resolved"])
    ELSE [r EXCEPT !.failed = @ + 1, !.attempts[r.i].outcome = "rejected",
                   !.pc = "done", !.result = Tally(r.success, r.failed + 1)]

\* A loop whose counters are fields of the service, shared by the calls in flight.
AfterSendSharedCounters(r, ok) ==
    LET resolved == Cardinality({ <<b, k>> \in (1..Len(broadcasts)) \X (1..Len(subscribers)) :
                       /\ k <= Len(broadcasts[b].attempts)
                       /\ broadcasts[b].attempts[k].outcome = "resolved" })
        rejected == Cardinality({ <<b, k>> \in (1..Len(broadcasts)) \X (1..Len(subscribers)) :
                       /\ k <= Len(broadcasts[b].attempts)
                       /\ broadcasts[b].attempts[k].outcome = "rejected" })
    IN  IF ok
        THEN Iterate([r EXCEPT !.success = resolved + 1, !.failed = rejected,
                               !.attempts[r.i].outcome = "resolved"])
        ELSE Iterate([r EXCEPT !.success = resolved, !.failed = rejected + 1,
                               !.attempts[r.i].outcome = "rejected"])

\* The body of the loop after its await: success++, or catch and failed++; then the
\* loop goes on.
AfterSend(r, ok) ==
    IF ok
    THEN Iterate([r EXCEPT !.success = @ + 1, !.attempts[r.i].outcome = "resolved"])
    ELSE Iterate([r EXCEPT !.failed = @ + 1, !.attempts[r.i].outcome = "rejected"])

\* A broadcastMessage that lets the error of getAllSubscribers reach its caller.
BroadcastListSettledThrows(b) ==
    /\ broadcasts[b].pc = "list"
    /\ \E out \in SelectSubscribers(subscribers) :
           broadcasts' = [broadcasts EXCEPT ![b] =
               IF out.err = "none"
               THEN Iterate([@ EXCEPT !.subscribers = out.rows, !.listed = "ok"])
               ELSE [@ EXCEPT !.pc = "rejected", !.listed = "err"]]
    /\ UNCHANGED <<client, isReady, initRejected, reconnects, disconnects,
                   authFailures, lifecycle, subscribers, messages, addLog, handlers, sendCalls>>

\* getAllSubscribers settles: the loop starts on the rows, or the outer catch
\* returns { success: 0, failed: 0 }.
BroadcastListSettled(b) ==
    /\ broadcasts[b].pc = "list"
    /\ \E out \in SelectSubscribers(subscribers) :
           broadcasts' = [broadcasts EXCEPT ![b] =
               IF out.err = "none"
               THEN Iterate([@ EXCEPT !.subscribers = out.rows, !.listed = "ok"])
               ELSE [@ EXCEPT !.pc = "done", !.listed = "err", !.result = Tally(0, 0)]]
    /\ UNCHANGED <<client, isReady, initRejected, reconnects, disconnects,
                   authFailures, lifecycle, subscribers, messages, addLog, handlers, sendCalls>>

\* The awaited client.sendMessage of the loop settles.
BroadcastSendSettled(b, ok) ==
    /\ broadcasts[b].pc = "send"
    /\ broadcasts' = [broadcasts EXCEPT ![b] = AfterSend(@, ok)]
    /\ UNCHANGED <<client, isReady, initRejected, reconnects, disconnects,
                   authFailures, lifecycle, subscribers, messages, addLog, handlers, sendCalls>>

(***************************************************************************)
(* The HTTP API (src/src/api/server.js).  A field of a JSON body is the    *)
(* set of its values: {} when the body has no such field.  A request       *)
(* record is one run of a route's async handler:                           *)
(*   pc      "sendMessage" or "broadcastMessage" while the service call is *)
(*           awaited, "done" once the response is sent;                    *)
(*   call    the service call it made, as a place in sendCalls or in       *)
(*           broadcasts (0: none);                                         *)
(*   status, success, stats  the response: status 0 while there is none,   *)
(*           stats the tally of a broadcast (-1, -1: no stats field).      *)
(***************************************************************************)
\* req.body.to: absent, the empty string, or an address.
ToFields == { {}, { <<>> } } \cup { { to } : to \in Senders }
\* req.body.message: absent, the empty string, or a text.
MessageFields == { {}, { "" }, { "hi" } }
\* The bodies posted to /api/send: complete ones, and ones with a field absent or
\* empty, or with neither field.
SendBodies ==
    { [to |-> to, message |-> message] : to \in ToFields, message \in MessageFields }
    \ { [to |-> { <<>> }, message |-> { "" }], [to |-> { <<>> }, message |-> {}],
        [to |-> {}, message |-> { "" }] }

Field(f) == CHOOSE x \in f : TRUE

\* !to and !message: undefined and the empty string are falsy.
FalsyTo(f) == f = {} \/ f = { <<>> }
FalsyMessage(f) == f = {} \/ f = { "" }

Respond(req, status, success, stats) ==
    [req EXCEPT !.pc = "done", !.status = status, !.success = success, !.stats = stats]

\* A route that answers 200 whatever sendMessage returned.
SendResponseAlwaysOk(req, call) ==
    IF call.pc \in {"done", "rejected"}
    THEN Respond(req, 200, TRUE, Tally(-1, -1))
    ELSE req

\* POST /api/send after await whatsappService.sendMessage(to, message): 200 when it
\* returned true, 500 when it returned false, and 500 from the catch if it rejected.
SendResponse(req, call) ==
    IF call.pc = "rejected"
    THEN Respond(req, 500, FALSE, Tally(-1, -1))
    ELSE IF call.pc = "done"
    THEN IF call.result = "true"
         THEN Respond(req, 200, TRUE, Tally(-1, -1))
         ELSE Respond(req, 500, FALSE, Tally(-1, -1))
    ELSE req

\* POST /api/broadcast after await whatsappService.broadcastMessage(message): 200
\* with the tally it returned, and 500 from the catch if it rejected.
BroadcastResponse(req, call) ==
    IF call.pc = "rejected"
    THEN Respond(req, 500, FALSE, Tally(-1, -1))
    ELSE IF call.pc = "done"
    THEN Respond(req, 200, TRUE, call.result)
    ELSE req

\* The handlers suspended on a service call go on when it has returned.
Resume(route, c, call) ==
    [k \in 1..Len(requests) |->
        IF requests[k].route = route /\ requests[k].call = c /\ requests[k].pc # "done"
        THEN IF route = "send"
             THEN SendResponse(requests[k], call)
             ELSE BroadcastResponse(requests[k], call)
        ELSE requests[k]]

\* POST /api/send with body { to, message }
PostApiSend(to, message) ==
    /\ server = "listening"
    /\ LET req == [route |-> "send", to |-> to, message |-> message, pc |-> "sendMessage",
                   call |-> 0, status |-> 0, success |-> FALSE, stats |-> Tally(-1, -1)]
       IN  IF FalsyTo(to) \/ FalsyMessage(message)
           THEN /\ requests' = Append(requests, Respond(req, 400, FALSE, Tally(-1, -1)))
                /\ UNCHANGED serviceVars
           ELSE /\ SendMessage(Field(to))
                /\ requests' = Append(requests,
                       SendResponse([req EXCEPT !.call = Len(sendCalls')],
                                    sendCalls'[Len(sendCalls')]))
    /\ UNCHANGED <<boot, db, closeLog, server>>

\* client.sendMessage of a sendMessage call settles, and the route that awaits the
\* call responds.
ApiSendMessageSettled(s, ok) ==
    /\ SendMessageSettled(s, ok)
    /\ requests' = Resume("send", s, sendCalls'[s])
    /\ UNCHANGED <<boot, db, closeLog, server>>

\* POST /api/broadcast with body { message }
PostApiBroadcast(message) ==
    /\ server = "listening"
    /\ LET req == [route |-> "broadcast", to |-> {}, message |-> message,
                   pc |-> "broadcastMessage", call |-> 0, status |-> 0, success |-> FALSE,
                   stats |-> Tally(-1, -1)]
       IN  IF FalsyMessage(message)
           THEN /\ requests' = Append(requests, Respond(req, 400, FALSE, Tally(-1, -1)))
                /\ UNCHANGED serviceVars
           ELSE /\ BroadcastMessage
                /\ requests' = Append(requests,
                       BroadcastResponse([req EXCEPT !.call = Len(broadcasts')],
                                         broadcasts'[Len(broadcasts')]))
    /\ UNCHANGED <<boot, db, closeLog, server>>

\* getAllSubscribers of a broadcastMessage call settles; the route responds if the
\* call has returned with that.
ApiBroadcastListSettled(b) ==
    /\ BroadcastListSettled(b)
    /\ requests' = Resume("broadcast", b, broadcasts'[b])
    /\ UNCHANGED <<boot, db, closeLog, server>>

\* A send of the loop of a broadcastMessage call settles; the route responds if that
\* was the last one.
ApiBroadcastSendSettled(b, ok) ==
    /\ BroadcastSendSettled(b, ok)
    /\ requests' = Resume("broadcast", b, broadcasts'[b])
    /\ UNCHANGED <<boot, db, closeLog, server>>

(***************************************************************************)
(* The application (src/app.js): startup, the store's close, shutdown.     *)
(* boot is the position of WhatsAppBot.initialize(): "start" (not called   *)
(* yet), "database" (suspended on database.initialize()), "server"         *)
(* (suspended on apiServer.start()), "running" (returned true),            *)
(* "aborted:store" and "aborted:client" (returned false), or the end of    *)
(* the process: "crashed" (uncaught exception), "exited" (process.exit).   *)
(***************************************************************************)
Alive == boot \notin {"crashed", "exited"}

\* bot.initialize() up to its await of database.initialize(), which has made the
\* handle and is itself suspended on createTables().
BotInitialize ==
    /\ boot = "start"
    /\ boot' = "database"
    /\ db' = "open"
    /\ UNCHANGED <<closeLog, server, requests>>
    /\ UNCHANGED serviceVars

\* The callback of new sqlite3.Database gets an error and throws it: nothing catches
\* an exception thrown from that callback, and the process ends.
DatabaseOpenThrows ==
    /\ boot = "database"
    /\ boot' = "crashed"
    /\ UNCHANGED <<db, closeLog, server, requests>>
    /\ UNCHANGED serviceVars

\* createTables() rejects: database.initialize() returns false and so does
\* bot.initialize().
DatabaseInitializeFailed ==
    /\ boot = "database"
    /\ boot' = "aborted:store"
    /\ UNCHANGED <<db, closeLog, server, requests>>
    /\ UNCHANGED serviceVars

\* A startup that starts the API server although the service reported a failure.
StartServiceFailedIgnored ==
    /\ boot = "database"
    /\ boot' = "server"
    /\ server' = "starting"
    /\ UNCHANGED <<db, closeLog, requests>>
    /\ UNCHANGED serviceVars

\* createTables() resolved, and whatsappService.initialize() throws before it has a
\* client (its catch returns false): bot.initialize() returns false.
StartServiceFailed ==
    /\ boot = "database"
    /\ boot' = "aborted:client"
    /\ UNCHANGED <<db, closeLog, server, requests>>
    /\ UNCHANGED serviceVars

\* createTables() resolved: whatsappService.initialize() returns true, and
\* apiServer.start() calls app.listen and is awaited.
StartService ==
    /\ boot = "database"
    /\ Initialize
    /\ boot' = "server"
    /\ server' = "starting"
    /\ UNCHANGED <<db, closeLog, requests>>

\* The callback of app.listen: start() resolves true and bot.initialize() returns true.
ServerListening ==
    /\ boot = "server"
    /\ boot' = "running"
    /\ server' = "listening"
    /\ UNCHANGED <<db, closeLog, requests>>
    /\ UNCHANGED serviceVars

\* The server emits 'error' (the port is taken): it has no listener for it, and the
\* process ends.
ServerListenThrows ==
    /\ boot = "server"
    /\ boot' = "crashed"
    /\ UNCHANGED <<db, closeLog, server, requests>>
    /\ UNCHANGED serviceVars

\* Database.close() on a handle: what becomes of the handle, whether this.db.close
\* was called, and the error its callback got and logged.  The handle stays in
\* this.db after the connection is released, and the engine answers a close of a
\* released connection with SQLITE_MISUSE.
CloseOutcomes(handle) ==
    IF handle = "null"
    THEN { [db |-> "null", engine |-> FALSE, err |-> "none"] }
    ELSE IF handle = "open"
    THEN { [db |-> "closed", engine |-> TRUE, err |-> "none"],
           [db |-> "open", engine |-> TRUE, err |-> "SQLITE_BUSY"] }
    ELSE { [db |-> "closed", engine |-> TRUE, err |-> "SQLITE_MISUSE"] }

\* database.close(), by any holder of the store.
Close ==
    /\ Alive
    /\ \E out \in CloseOutcomes(db) :
           /\ db' = out.db
           /\ closeLog' = Append(closeLog, [before |-> db, engine |-> out.engine,
                                            err |-> out.err])
    /\ UNCHANGED <<boot, server, requests>>
    /\ UNCHANGED serviceVars

\* SIGINT or SIGTERM: bot.shutdown() (database.close(), apiServer.stop()), then
\* process.exit(0).
Shutdown ==
    /\ Alive
    /\ \E out \in CloseOutcomes(db) :
           /\ db' = out.db
           /\ closeLog' = Append(closeLog, [before |-> db, engine |-> out.engine,
                                            err |-> out.err])
    /\ server' = IF server = "null" THEN "null" ELSE "closed"
    /\ boot' = "exited"
    /\ UNCHANGED requests
    /\ UNCHANGED serviceVars

(***************************************************************************)
(* The bounds are stated here, on the environment's moves, not in the      *)
(* actions.                                                                *)
(***************************************************************************)
Budget == Ops < MaxOps

\* No handler has run for this sender yet.
NewSender(from) == \A h \in 1..Len(handlers) : handlers[h].from # from

(***************************************************************************)
(* The whole service, after a startup that goes well.  The callback of     *)
(* app.listen is not delivered here: sendMessage and broadcastMessage are  *)
(* called as the service's operations (SpecApi has them called by the      *)
(* routes).  Each sender writes once here, so that the tables stay small   *)
(* beside the API calls and the lifecycle; SpecInbound has the listener    *)
(* with senders that write again.                                          *)
(***************************************************************************)
Next ==
    \/ BotInitialize
    \/ StartService
    \/ Budget /\ InitializeRejected /\ UNCHANGED appVars
    \/ Qr /\ UNCHANGED appVars
    \/ Ready /\ UNCHANGED appVars
    \/ Budget /\ disconnects < MaxDisconnects /\ Disconnected /\ UNCHANGED appVars
    \/ Budget /\ authFailures < MaxAuthFailures /\ AuthFailure /\ UNCHANGED appVars
    \/ \E from \in Senders, body \in Bodies :
           /\ Budget /\ Len(handlers) < MaxMsgs /\ NewSender(from) /\ Message(from, body)
           /\ UNCHANGED appVars
    \/ \E h \in 1..Len(handlers) : AddSubscriberSettled(h) /\ UNCHANGED appVars
    \/ \E h \in 1..Len(handlers) : LogMessageSettled(h) /\ UNCHANGED appVars
    \/ \E h \in 1..Len(handlers), ok \in BOOLEAN : ReplySettled(h, ok) /\ UNCHANGED appVars
    \/ \E to \in Senders :
           Budget /\ Len(sendCalls) < MaxSends /\ SendMessage(to) /\ UNCHANGED appVars
    \/ \E s \in 1..Len(sendCalls), ok \in BOOLEAN :
           SendMessageSettled(s, ok) /\ UNCHANGED appVars
    \/ Budget /\ Len(broadcasts) < MaxBroadcasts /\ BroadcastMessage /\ UNCHANGED appVars
    \/ \E b \in 1..Len(broadcasts) : BroadcastListSettled(b) /\ UNCHANGED appVars
    \/ \E b \in 1..Len(broadcasts), ok \in BOOLEAN :
           BroadcastSendSettled(b, ok) /\ UNCHANGED appVars

Spec == Init /\ [][Next]_vars

(***************************************************************************)
(* The 'message' listener alone: up to MaxMsgs messages, from any senders, *)
(* their handlers interleaving at every await.                             *)
(***************************************************************************)
NextInbound ==
    \/ BotInitialize
    \/ StartService
    \/ \E from \in Senders, body \in Bodies :
           Len(handlers) < MaxMsgs /\ Message(from, body) /\ UNCHANGED appVars
    \/ \E h \in 1..Len(handlers) : AddSubscriberSettled(h) /\ UNCHANGED appVars
    \/ \E h \in 1..Len(handlers) : LogMessageSettled(h) /\ UNCHANGED appVars
    \/ \E h \in 1..Len(handlers), ok \in BOOLEAN : ReplySettled(h, ok) /\ UNCHANGED appVars

SpecInbound == Init /\ [][NextInbound]_vars

(***************************************************************************)
(* The command dispatch: one message, with any of CommandBodies as its     *)
(* body, goes through the listener.                                        *)
(***************************************************************************)
NextCommands ==
    \/ BotInitialize
    \/ StartService
    \/ \E from \in Senders, body \in CommandBodies :
           handlers = <<>> /\ Message(from, body) /\ UNCHANGED appVars
    \/ \E h \in 1..Len(handlers) : AddSubscriberSettled(h) /\ UNCHANGED appVars
    \/ \E h \in 1..Len(handlers) : LogMessageSettled(h) /\ UNCHANGED appVars
    \/ \E h \in 1..Len(handlers), ok \in BOOLEAN : ReplySettled(h, ok) /\ UNCHANGED appVars

SpecCommands == Init /\ [][NextCommands]_vars

(***************************************************************************)
(* The HTTP API on a running application: the startup has gone well, the   *)
(* server listens, and the database file holds the subscribers an earlier  *)
(* run has left (their messages were not logged).  The routes make the     *)
(* calls of sendMessage and broadcastMessage.                              *)
(***************************************************************************)
OneRowTables ==
    { << SubscriberRow(<<>>, from, PhoneNumber(from), "HOLA") >> : from \in Senders }

StoredTables ==
    {<<>>} \cup OneRowTables \cup
    UNION { { Append(t, SubscriberRow(t, from, PhoneNumber(from), "bye")) :
                  from \in { f \in Senders : ~HasSubscriber(t, f) } } :
            t \in OneRowTables }

InitStarted ==
    /\ client = "created"
    /\ isReady = FALSE
    /\ initRejected = 0
    /\ reconnects = 0
    /\ disconnects = 0
    /\ authFailures = 0
    /\ lifecycle = "constructed"
    /\ subscribers \in StoredTables
    /\ messages = <<>>
    /\ addLog = [k \in 1..Len(subscribers) |->
                    [whatsapp_id |-> subscribers[k].whatsapp_id,
                     phone_number |-> subscribers[k].phone_number,
                     first_message |-> subscribers[k].first_message]]
    /\ handlers = <<>>
    /\ sendCalls = <<>>
    /\ broadcasts = <<>>
    /\ boot = "running"
    /\ db = "open"
    /\ closeLog = <<>>
    /\ server = "listening"
    /\ requests = <<>>

\* Recorded moves of the environment: requests made, 'disconnected' events delivered.
ApiBudget == Len(requests) + disconnects < MaxApiOps

NextApi ==
    \/ Ready /\ UNCHANGED appVars
    \/ ApiBudget /\ disconnects < MaxDisconnects /\ Disconnected /\ UNCHANGED appVars
    \/ \E body \in SendBodies :
           ApiBudget /\ Len(sendCalls) < MaxSends /\ PostApiSend(body.to, body.message)
    \/ \E s \in 1..Len(sendCalls), ok \in BOOLEAN : ApiSendMessageSettled(s, ok)
    \/ \E message \in MessageFields :
           ApiBudget /\ Len(broadcasts) < MaxBroadcasts /\ PostApiBroadcast(message)
    \/ \E b \in 1..Len(broadcasts) : ApiBroadcastListSettled(b)
    \/ \E b \in 1..Len(broadcasts), ok \in BOOLEAN : ApiBroadcastSendSettled(b, ok)

SpecApi == InitStarted /\ [][NextApi]_vars

(***************************************************************************)
(* Requests in flight together on a running application: up to            *)
(* MaxConcurrent POST /api/broadcast and one POST /api/send, all with      *)
(* complete bodies, while one message from a new sender is handled.        *)
(***************************************************************************)
NextConcurrent ==
    \/ Ready /\ UNCHANGED appVars
    \/ \E from \in Senders :
           /\ handlers = <<>> /\ NewSender(from) /\ ~HasSubscriber(subscribers, from)
           /\ Message(from, "bye")
           /\ UNCHANGED appVars
    \/ \E h \in 1..Len(handlers) : AddSubscriberSettled(h) /\ UNCHANGED appVars
    \/ \E h \in 1..Len(handlers) : LogMessageSettled(h) /\ UNCHANGED appVars
    \/ Len(broadcasts) < MaxConcurrent /\ PostApiBroadcast({ "hi" })
    \/ \E b \in 1..Len(broadcasts) : ApiBroadcastListSettled(b)
    \/ \E b \in 1..Len(broadcasts), ok \in BOOLEAN : ApiBroadcastSendSettled(b, ok)
    \/ \E to \in Senders : sendCalls = <<>> /\ PostApiSend({ to }, { "hi" })
    \/ \E s \in 1..Len(sendCalls), ok \in BOOLEAN : ApiSendMessageSettled(s, ok)

SpecConcurrent == InitStarted /\ [][NextConcurrent]_vars

(***************************************************************************)
(* The application's own life: every way the startup can go, the client's  *)
(* first events, database.close() by any holder of the store, shutdown.    *)
(***************************************************************************)
NextApp ==
    \/ BotInitialize
    \/ DatabaseOpenThrows
    \/ DatabaseInitializeFailed
    \/ StartServiceFailed
    \/ StartService
    \/ ServerListening
    \/ ServerListenThrows
    \/ Alive /\ InitializeRejected /\ UNCHANGED appVars
    \/ Alive /\ Ready /\ UNCHANGED appVars
    \/ Len(closeLog) < MaxCloses /\ Close
    \/ Len(closeLog) < MaxCloses /\ Shutdown

SpecApp == Init /\ [][NextApp]_vars

(***************************************************************************)
(* Properties.                                                             *)
(***************************************************************************)
Has(trace, step, what) == \E k \in 1..Len(trace) : trace[k] = <<step, what>>

Failed(trace) == \E k \in 1..Len(trace) : trace[k][2] \notin {"call", "ok"}

\* The addSubscriber calls that resolved for an identity, as places in addLog.
Resolved(whatsappId) == { k \in 1..Len(addLog) : addLog[k].whatsapp_id = whatsappId }

(* C1: after any interleaving of addSubscriber calls the table holds at most
   one row per identity; an identity has a row exactly when an addSubscriber
   for it has resolved, and the row carries the phone_number and first_message
   of the first one that resolved; an addSubscriber for an identity that is
   already there never fails for that reason (no handler sees a constraint
   error). *)
C1_InsertIfAbsent ==
    /\ \A i, j \in 1..Len(subscribers) :
           subscribers[i].whatsapp_id = subscribers[j].whatsapp_id => i = j
    /\ \A id \in Senders :
           IF Resolved(id) = {}
           THEN ~HasSubscriber(subscribers, id)
           ELSE \E i \in 1..Len(subscribers) :
                    /\ subscribers[i].whatsapp_id = id
                    /\ subscribers[i].phone_number = addLog[Min(Resolved(id))].phone_number
                    /\ subscribers[i].first_message = addLog[Min(Resolved(id))].first_message
    /\ \A h \in 1..Len(handlers) :
           ~Has(handlers[h].trace, "addSubscriber", "SQLITE_CONSTRAINT")

\* Two addSubscriber calls for one identity resolved, with different first messages.
C1_Witness ==
    \E j, k \in 1..Len(addLog) :
        /\ j < k
        /\ addLog[j].whatsapp_id = addLog[k].whatsapp_id
        /\ addLog[j].first_message # addLog[k].first_message
        /\ Len(subscribers) = 1

Count(attempts, outcome) ==
    Cardinality({ k \in 1..Len(attempts) : attempts[k].outcome = outcome })

(* C2: a broadcastMessage called while ready whose listing succeeded with n
   rows has, once it returned, called client.sendMessage exactly once for each
   listed row, in order, whatever the earlier sends did, and returned
   success = the sends that resolved, failed = the sends that rejected,
   success + failed = n (0, 0 for n = 0). *)
C2_BroadcastTally ==
    \A b \in 1..Len(broadcasts) :
        LET r == broadcasts[b]
            n == Len(r.subscribers)
        IN  (r.pc = "done" /\ r.lifecycleAtCall = "ready" /\ r.listed = "ok") =>
                /\ Len(r.attempts) = n
                /\ \A k \in 1..n :
                       /\ r.attempts[k].to = r.subscribers[k].whatsapp_id
                       /\ r.attempts[k].outcome \in {"resolved", "rejected"}
                /\ r.result.success = Count(r.attempts, "resolved")
                /\ r.result.failed = Count(r.attempts, "rejected")
                /\ r.result.success + r.result.failed = n

\* A broadcast over two subscribers returned after the first send rejected and the
\* second resolved.
C2_Witness ==
    \E b \in 1..Len(broadcasts) :
        /\ broadcasts[b].pc = "done"
        /\ Len(broadcasts[b].subscribers) = 2
        /\ Len(broadcasts[b].attempts) = 2
        /\ broadcasts[b].attempts[1].outcome = "rejected"
        /\ broadcasts[b].attempts[2].outcome = "resolved"
        /\ broadcasts[b].result = Tally(1, 1)

(* C3: a sendMessage called while the last lifecycle event is not 'ready'
   (none yet, or 'disconnected') has returned false at once, without calling
   client.sendMessage; no call ever ends other than by returning. *)
C3_SendNotReady ==
    \A s \in 1..Len(sendCalls) :
        /\ sendCalls[s].pc \in {"send", "done"}
        /\ sendCalls[s].lifecycleAtCall # "ready" =>
               /\ sendCalls[s].pc = "done"
               /\ sendCalls[s].result = "false"
               /\ ~sendCalls[s].issued

\* A sendMessage was called after a 'disconnected' and before the next 'ready'.
C3_Witness ==
    \E s \in 1..Len(sendCalls) :
        sendCalls[s].lifecycleAtCall = "disconnected" /\ sendCalls[s].result = "false"

(* C4: a broadcastMessage called while the client is not ready has returned
   {success: 0, failed: 0} at once: it never read the subscribers and never
   called client.sendMessage. *)
C4_BroadcastNotReady ==
    \A b \in 1..Len(broadcasts) :
        broadcasts[b].lifecycleAtCall # "ready" =>
            /\ broadcasts[b].pc = "done"
            /\ broadcasts[b].result = Tally(0, 0)
            /\ broadcasts[b].listed = "no"
            /\ broadcasts[b].attempts = <<>>

\* A broadcast was called while not ready, with subscribers in the table.
C4_Witness ==
    \E b \in 1..Len(broadcasts) :
        broadcasts[b].lifecycleAtCall # "ready" /\ Len(subscribers) > 0

(* C5: within one broadcastMessage call the sends follow the listing order and
   only the newest one can be in flight: every earlier send has resolved or
   rejected before the next one is made. *)
C5_SendsSerialized ==
    \A b \in 1..Len(broadcasts) :
        LET r == broadcasts[b]
        IN  /\ Len(r.attempts) <= Len(r.subscribers)
            /\ \A k \in 1..Len(r.attempts) :
                   /\ r.attempts[k].to = r.subscribers[k].whatsapp_id
                   /\ k < Len(r.attempts) => r.attempts[k].outcome # "pending"
            /\ Count(r.attempts, "pending") <= 1
            /\ Count(r.attempts, "pending") = 1 <=> r.pc = "send"

\* The second send of a broadcast is in flight, the first has settled.
C5_Witness ==
    \E b \in 1..Len(broadcasts) :
        /\ broadcasts[b].pc = "send"
        /\ Len(broadcasts[b].attempts) = 2
        /\ broadcasts[b].attempts[2].outcome = "pending"

(* C6: after k 'disconnected' events the listener has called client.initialize
   exactly k times, whether or not earlier calls were rejected (a rejection is
   logged, not retried), and the client is not ready from a 'disconnected'
   until the next 'ready'. *)
C6_OneReconnectPerDisconnect ==
    /\ reconnects = disconnects
    /\ lifecycle = "disconnected" => ~isReady

\* Every client.initialize() so far was rejected, the one of a reconnect included.
C6_Witness ==
    /\ disconnects >= 1
    /\ initRejected = InitCalls

(* C7 as claimed: once an 'auth_failure' was delivered the client is not ready
   and no later call makes a send. *)
C7_AuthFailedTerminal ==
    authFailures > 0 =>
        /\ ~isReady
        /\ \A s \in 1..Len(sendCalls) :
               sendCalls[s].authFailuresAtCall > 0 => ~sendCalls[s].issued
        /\ \A b \in 1..Len(broadcasts) :
               broadcasts[b].authFailuresAtCall > 0 => broadcasts[b].attempts = <<>>

(* C7, amended: 'auth_failure' is only logged.  Readiness follows the last
   'ready' or 'disconnected' event alone, and sendMessage and broadcastMessage
   go on to the client exactly when they are called while that event is
   'ready', auth failures or not. *)
C7_AuthFailureOnlyLogged ==
    /\ isReady <=> lifecycle = "ready"
    /\ \A s \in 1..Len(sendCalls) :
           sendCalls[s].issued <=> sendCalls[s].lifecycleAtCall = "ready"
    /\ \A b \in 1..Len(broadcasts) :
           (broadcasts[b].pc = "list" \/ broadcasts[b].listed # "no")
               <=> broadcasts[b].lifecycleAtCall = "ready"

\* A sendMessage made after an 'auth_failure' went on to client.sendMessage.
C7_Witness ==
    \E s \in 1..Len(sendCalls) :
        sendCalls[s].authFailuresAtCall > 0 /\ sendCalls[s].issued

(* C8: the promise of the 'message' listener never rejects: when addSubscriber,
   logMessage or the reply fails, the listener is done. *)
C8_ListenerNeverRejects ==
    \A h \in 1..Len(handlers) :
        /\ handlers[h].pc # "rejected"
        /\ Failed(handlers[h].trace) => handlers[h].pc = "done"

\* A message failed and a later message went through the whole chain, reply included.
C8_Witness ==
    \E g, h \in 1..Len(handlers) :
        /\ g < h
        /\ Failed(handlers[g].trace)
        /\ handlers[h].pc = "done"
        /\ Has(handlers[h].trace, "reply", "ok")

Logged == { h \in 1..Len(handlers) : handlers[h].logRow > 0 }

(* C9 as claimed: the messages table has one row for each logMessage call
   that resolved, and the rows of one identity are in the order in which the
   calls were made. *)
C9_RowsInCallOrder ==
    /\ Len(messages) = Cardinality(Logged)
    /\ \A g, h \in Logged :
           (handlers[g].from = handlers[h].from /\ handlers[g].logCall < handlers[h].logCall)
               => handlers[g].logRow < handlers[h].logRow

(* C9, amended: the messages table is exactly the rows of the logMessage calls
   that resolved: each of them wrote one row, after every row that was there
   when the call was made (calls in flight together are ordered by the engine,
   not by the time of the call), the row is still in its place with its
   content, and there is no other row. *)
C9_AppendOnly ==
    /\ Len(messages) = Cardinality(Logged)
    /\ \A h \in 1..Len(handlers) :
           Has(handlers[h].trace, "logMessage", "ok") <=> h \in Logged
    /\ \A h \in Logged :
           /\ handlers[h].logRow \in 1..Len(messages)
           /\ handlers[h].logRow > handlers[h].logSeen
           /\ messages[handlers[h].logRow] =
                  [id |-> handlers[h].logRow, whatsapp_id |-> handlers[h].from,
                   message |-> handlers[h].body]
    /\ \A g, h \in Logged : handlers[g].logRow = handlers[h].logRow => g = h

\* Two messages of one sender are logged, the second after the first had been.
C9_Witness ==
    \E g, h \in Logged :
        /\ g # h
        /\ handlers[g].from = handlers[h].from
        /\ handlers[g].body # handlers[h].body
        /\ handlers[h].logSeen >= handlers[g].logRow

(* C10: every handler calls addSubscriber first, calls logMessage only right
   after its addSubscriber resolved and handleCommands only right after its
   logMessage resolved, each once; a handler that is done without a failure
   has run all three. *)
C10_StepOrder ==
    \A h \in 1..Len(handlers) :
        LET t == handlers[h].trace
        IN  /\ t[1] = <<"addSubscriber", "call">>
            /\ \A k \in 2..Len(t) :
                   /\ t[k] # <<"addSubscriber", "call">>
                   /\ t[k] = <<"logMessage", "call">> => t[k-1] = <<"addSubscriber", "ok">>
                   /\ t[k] = <<"handleCommands", "call">> => t[k-1] = <<"logMessage", "ok">>
            /\ \A j, k \in 1..Len(t) : (t[j] = t[k] /\ t[j][2] = "call") => j = k
            /\ (handlers[h].pc = "done" /\ ~Failed(t)) =>
                   /\ Has(t, "logMessage", "ok")
                   /\ Has(t, "handleCommands", "ok")

\* A later message has overtaken an earlier one: it is in its reply while the
\* earlier one still waits for logMessage.
C10_Witness ==
    \E g, h \in 1..Len(handlers) :
        /\ g < h
        /\ handlers[g].pc = "logMessage"
        /\ handlers[h].pc = "reply"

(* C16: the readiness flag is the last lifecycle event: false from
   construction until the first 'ready', true from a 'ready' until the next
   'disconnected', false from a 'disconnected' until the next 'ready'.  The
   last lifecycle event changes only on 'ready' and 'disconnected', so no 'qr',
   no message handling and no sendMessage or broadcastMessage call, suspended
   or returned, has changed the flag. *)
C16_ReadyIsLastLifecycleEvent ==
    /\ lifecycle \in {"constructed", "ready", "disconnected"}
    /\ lifecycle = "constructed" => (~isReady /\ disconnects = 0)
    /\ lifecycle = "ready" => isReady
    /\ lifecycle = "disconnected" => (~isReady /\ disconnects > 0)

\* The client is ready again after a 'disconnected'; meanwhile a message was handled
\* and a sendMessage call has returned.
C16_Witness ==
    /\ lifecycle = "ready"
    /\ isReady
    /\ disconnects > 0
    /\ \E h \in 1..Len(handlers) : handlers[h].pc = "done"
    /\ \E s \in 1..Len(sendCalls) : sendCalls[s].pc = "done"

(* C17: a broadcast works on the rows its one listing returned, which are the
   table as it was then (rows are only ever appended, so a prefix of the table
   now).  Every send it makes goes to one of those rows; a subscriber inserted
   after the listing gets no send from it; once it has returned its tally adds
   up to the rows listed, however many the table holds by then. *)
C17_BroadcastSnapshot ==
    \A b \in 1..Len(broadcasts) :
        LET r == broadcasts[b]
            n == Len(r.subscribers)
        IN  r.listed = "ok" =>
                /\ n <= Len(subscribers)
                /\ \A k \in 1..n : r.subscribers[k] = subscribers[k]
                /\ Len(r.attempts) <= n
                /\ \A j \in (n + 1)..Len(subscribers) :
                       \A k \in 1..Len(r.attempts) :
                           r.attempts[k].to # subscribers[j].whatsapp_id
                /\ r.pc = "done" => r.result.success + r.result.failed = n

\* A broadcast that listed one subscriber is suspended on its send to that one; a
\* message handled meanwhile has inserted a second subscriber.
C17_Witness ==
    \E b \in 1..Len(broadcasts) :
        /\ broadcasts[b].pc = "send"
        /\ Len(broadcasts[b].subscribers) = 1
        /\ Len(subscribers) = 2
        /\ \E h \in 1..Len(handlers) :
               /\ handlers[h].from = subscribers[2].whatsapp_id
               /\ Has(handlers[h].trace, "addSubscriber", "ok")

(* C19: every row of the messages table carries an identity that has a row in
   the subscribers table, and every handler that has called logMessage did so
   after its own addSubscriber resolved, when the identity's row was already
   there; this holds in every state of every interleaving of handlers. *)
C19_LoggedIdentityIsSubscribed ==
    /\ \A i \in 1..Len(messages) : HasSubscriber(subscribers, messages[i].whatsapp_id)
    /\ \A h \in 1..Len(handlers) :
           Has(handlers[h].trace, "logMessage", "call") =>
               /\ Has(handlers[h].trace, "addSubscriber", "ok")
               /\ HasSubscriber(subscribers, handlers[h].from)

\* Two messages of one sender: the addSubscriber of the first failed, the second
\* went through and its row is in the log.
C19_Witness ==
    \E g, h \in 1..Len(handlers) :
        /\ g < h
        /\ handlers[g].from = handlers[h].from
        /\ Has(handlers[g].trace, "addSubscriber", "SQLITE_ERROR")
        /\ handlers[h].logRow > 0
        /\ Len(messages) = 1

(* C20: a failed step ends the handling of its message.  A handler whose
   addSubscriber failed has called neither logMessage nor handleCommands: it
   wrote no log row and sent no reply.  A handler whose logMessage failed has
   left the subscriber row in place, wrote no log row, and has not called
   handleCommands.  A handler whose reply failed has left both the subscriber
   row and its log row in place. *)
C20_FailureSkipsTheRest ==
    \A h \in 1..Len(handlers) :
        LET m == handlers[h]
        IN  /\ Has(m.trace, "addSubscriber", "SQLITE_ERROR") =>
                   /\ m.pc = "done"
                   /\ ~Has(m.trace, "logMessage", "call")
                   /\ ~Has(m.trace, "handleCommands", "call")
                   /\ ~Has(m.trace, "reply", "call")
                   /\ m.logRow = 0
            /\ Has(m.trace, "logMessage", "SQLITE_ERROR") =>
                   /\ m.pc = "done"
                   /\ HasSubscriber(subscribers, m.from)
                   /\ m.logRow = 0
                   /\ ~Has(m.trace, "handleCommands", "call")
                   /\ ~Has(m.trace, "reply", "call")
            /\ Has(m.trace, "reply", "error") =>
                   /\ m.pc = "done"
                   /\ HasSubscriber(subscribers, m.from)
                   /\ m.logRow \in 1..Len(messages)
                   /\ messages[m.logRow].whatsapp_id = m.from
                   /\ messages[m.logRow].message = m.body

\* A command whose logMessage failed, and a command whose reply failed.
C20_Witness ==
    \E g, h \in 1..Len(handlers) :
        /\ CommandReply(handlers[g].body) # "none"
        /\ Has(handlers[g].trace, "logMessage", "SQLITE_ERROR")
        /\ Has(handlers[h].trace, "reply", "error")

\* The bodies that are a command in some letter case, by the reply they are due.
Greetings == { "hola", "HOLA", "Hola", "hOLa" }
InfoRequests == { "!info", "!INFO", "!Info" }
HelpRequests == { "!ayuda", "!AYUDA", "!Ayuda", "!help", "!HELP", "!hElp" }

\* The msg.reply calls a handler has made.
Replies(trace) == { k \in 1..Len(trace) : trace[k] = <<"reply", "call">> }

(* C15: a handler that has called handleCommands with a body that is hola,
   !info, !ayuda or !help in any letter case has made exactly one msg.reply
   call, with the greeting, the message information or the help text (the same
   for !ayuda and !help); with any other body (a command inside a longer text,
   after a space, without its '!', the empty body) it has made no msg.reply
   call and handleCommands has returned without an error. *)
C15_CommandDispatch ==
    \A h \in 1..Len(handlers) :
        LET m == handlers[h]
            due == IF m.body \in Greetings THEN "greeting"
                   ELSE IF m.body \in InfoRequests THEN "info"
                   ELSE IF m.body \in HelpRequests THEN "help"
                   ELSE "none"
        IN  /\ Cardinality(Replies(m.trace)) <= 1
            /\ Has(m.trace, "handleCommands", "call") =>
                   IF due = "none"
                   THEN /\ Replies(m.trace) = {}
                        /\ m.reply = "none"
                        /\ m.pc = "done"
                        /\ Has(m.trace, "handleCommands", "ok")
                        /\ ~Failed(m.trace)
                   ELSE /\ Cardinality(Replies(m.trace)) = 1
                        /\ m.reply = due
            /\ ~Has(m.trace, "handleCommands", "call") => Replies(m.trace) = {}

\* A body in mixed case has been answered with the greeting.
C15_Witness ==
    \E h \in 1..Len(handlers) :
        /\ handlers[h].body = "hOLa"
        /\ handlers[h].reply = "greeting"
        /\ Has(handlers[h].trace, "reply", "ok")
        /\ handlers[h].pc = "done"

\* The requests to a route, as places in requests.
Requests(route) == { k \in 1..Len(requests) : requests[k].route = route }

(* C11: a POST /api/send whose 'to' or 'message' is absent (or empty) is
   answered 400 with success false and has made no sendMessage call.  Any
   other has made exactly one sendMessage call, for its 'to', and no call
   comes from elsewhere; it has no response while the call is suspended; once
   the call returned it is answered 200 with success true exactly when the
   call returned true, and 500 with success false when it returned false,
   which it has at once when the client was not ready. *)
C11_SendEndpoint ==
    /\ Len(sendCalls) = Cardinality({ k \in Requests("send") : requests[k].call > 0 })
    /\ \A k \in Requests("send") :
           LET q == requests[k]
           IN  IF FalsyTo(q.to) \/ FalsyMessage(q.message)
               THEN q.pc = "done" /\ q.status = 400 /\ ~q.success /\ q.call = 0
               ELSE /\ q.call \in 1..Len(sendCalls)
                    /\ \A j \in Requests("send") : requests[j].call = q.call => j = k
                    /\ sendCalls[q.call].to = Field(q.to)
                    /\ q.status \in {0, 200, 500}
                    /\ q.status = 0 <=> sendCalls[q.call].pc = "send"
                    /\ q.status = 200 <=> sendCalls[q.call].result = "true"
                    /\ q.status = 500 <=> sendCalls[q.call].result = "false"
                    /\ q.success <=> q.status = 200
                    /\ sendCalls[q.call].lifecycleAtCall # "ready" => q.status = 500

\* A request without 'message' was answered 400, and a complete one 200.
C11_Witness ==
    \E j, k \in Requests("send") :
        /\ requests[j].message = {}
        /\ requests[j].to # {}
        /\ requests[j].status = 400
        /\ requests[k].status = 200
        /\ Len(sendCalls) = 1

(* C12 as claimed: a POST /api/broadcast without 'message' is answered 400; one
   whose broadcast met an internal failure (the listing of the subscribers
   failed) is answered 500 with success false; 200 is answered only when there
   was no such failure. *)
C12_InternalFailureIs500 ==
    \A k \in Requests("broadcast") :
        LET q == requests[k]
        IN  IF FalsyMessage(q.message)
            THEN q.status = 400 /\ ~q.success /\ q.call = 0
            ELSE /\ (q.pc = "done" /\ broadcasts[q.call].listed = "err") =>
                        (q.status = 500 /\ ~q.success)
                 /\ q.status = 200 => broadcasts[q.call].listed # "err"

(* C12, amended: a POST /api/broadcast without 'message' (or with an empty
   one) is answered 400 with success false and has made no broadcastMessage
   call.  Any other has made exactly one call and is answered, once the call
   has returned, 200 with success true and the tally the call returned, never
   500: broadcastMessage turns a failed listing into the tally {0, 0}, as it
   does a client that is not ready, and counts a failed send in 'failed'. *)
C12_BroadcastEndpoint ==
    /\ Len(broadcasts) = Cardinality({ k \in Requests("broadcast") : requests[k].call > 0 })
    /\ \A k \in Requests("broadcast") :
           LET q == requests[k]
           IN  IF FalsyMessage(q.message)
               THEN q.pc = "done" /\ q.status = 400 /\ ~q.success /\ q.call = 0
               ELSE /\ q.call \in 1..Len(broadcasts)
                    /\ \A j \in Requests("broadcast") : requests[j].call = q.call => j = k
                    /\ q.status \in {0, 200}
                    /\ q.status = 200 <=> broadcasts[q.call].pc = "done"
                    /\ q.status = 200 =>
                           /\ q.success
                           /\ q.stats = broadcasts[q.call].result
                           /\ broadcasts[q.call].listed = "err" => q.stats = Tally(0, 0)
                           /\ broadcasts[q.call].lifecycleAtCall # "ready" =>
                                  q.stats = Tally(0, 0)

\* The listing of a broadcast failed with subscribers in the table, and the request
\* was answered 200 with the tally {0, 0}.
C12_Witness ==
    \E k \in Requests("broadcast") :
        /\ requests[k].status = 200
        /\ requests[k].success
        /\ requests[k].stats = Tally(0, 0)
        /\ requests[k].call > 0
        /\ broadcasts[requests[k].call].listed = "err"
        /\ Len(subscribers) > 0

(* C18: broadcastMessage reads isReady once, when it is called.  A broadcast
   makes sends only if the client was ready then; once its listing succeeded
   it goes through every listed row whatever isReady is when each send is
   made: when it has returned it has made one send per row, and at every
   moment its counters are the sends that resolved and the sends that
   rejected, those made while the client was not ready included. *)
C18_ReadinessCheckedOnce ==
    \A b \in 1..Len(broadcasts) :
        LET r == broadcasts[b]
        IN  /\ r.attempts # <<>> => r.lifecycleAtCall = "ready"
            /\ r.listed = "ok" =>
                   /\ r.success = Count(r.attempts, "resolved")
                   /\ r.failed = Count(r.attempts, "rejected")
                   /\ r.pc = "done" =>
                          /\ Len(r.attempts) = Len(r.subscribers)
                          /\ r.result = Tally(r.success, r.failed)
            /\ r.pc = "send" => r.attempts[Len(r.attempts)].outcome = "pending"

\* A 'disconnected' came while a broadcast over two subscribers was suspended on its
\* first send: the second send was made while the client was not ready, resolved, and
\* is counted.
C18_Witness ==
    \E b \in 1..Len(broadcasts) :
        /\ broadcasts[b].pc = "done"
        /\ Len(broadcasts[b].attempts) = 2
        /\ broadcasts[b].attempts[1].ready
        /\ ~broadcasts[b].attempts[2].ready
        /\ broadcasts[b].attempts[2].outcome = "resolved"
        /\ broadcasts[b].result = Tally(2, 0)
        /\ disconnects > 0

(* C13 as claimed: the startup initializes the store, then the client, then
   starts the API server, and a failure of the store's or of the client's
   initialization ends it there: the API server is never started (and after a
   store failure the client is never initialized).  The client's
   initialization has failed when whatsappService.initialize() reported it or
   when client.initialize() was rejected. *)
C13_InitFailureFatal ==
    /\ client = "created" => db # "null"
    /\ server # "null" => client = "created"
    /\ boot = "aborted:store" => (client = "null" /\ server = "null")
    /\ (boot = "aborted:client" \/ initRejected > 0) => server = "null"

(* C13, amended: the startup initializes the store, then the client, then
   starts the API server.  When the store's initialization fails, the client is
   never initialized and the server never started; when
   whatsappService.initialize() reports a failure, the server is never started;
   in both cases bot.initialize() returns false and no request is served.  A
   rejection of client.initialize() is not such a failure: it comes after the
   server's start was called, is only logged, and the server goes on to
   listen. *)
C13_StartupOrder ==
    /\ boot \in {"start", "database", "server", "running", "aborted:store",
                 "aborted:client", "crashed", "exited"}
    /\ client = "created" =>
           /\ db # "null"
           /\ boot \notin {"start", "database", "aborted:store", "aborted:client"}
    /\ server # "null" => client = "created"
    /\ boot \in {"aborted:store", "aborted:client"} =>
           /\ client = "null"
           /\ server = "null"
           /\ ~isReady
           /\ requests = <<>>
    /\ boot = "running" => server = "listening"
    /\ server = "listening" => boot = "running"
    /\ initRejected > 0 => server # "null"

\* client.initialize() was rejected, and the application is up and listening.
C13_Witness ==
    /\ initRejected > 0
    /\ boot = "running"
    /\ server = "listening"

(* C14 as claimed: a close() before initialize() does nothing and raises no
   error, and a close() on a store whose connection was already released does
   not call the connection's close again and raises no error. *)
C14_CloseIdempotent ==
    \A k \in 1..Len(closeLog) :
        /\ closeLog[k].before = "null" =>
               (~closeLog[k].engine /\ closeLog[k].err = "none")
        /\ closeLog[k].before = "closed" =>
               (~closeLog[k].engine /\ closeLog[k].err = "none")

(* C21: broadcasts in flight together, beside a sendMessage call, are
   independent.  Each one sends to the rows of its own listing, in their
   order, and its counters are at every moment the sends of its own that
   resolved and the sends of its own that rejected, whatever the sends of
   another broadcast or of sendMessage did; the tally it returns is those
   counters, adds up to the rows of its own listing, and is the one its own
   request is answered with. *)
C21_BroadcastsIndependent ==
    /\ \A b \in 1..Len(broadcasts) :
           LET r == broadcasts[b]
               n == Len(r.subscribers)
           IN  r.listed = "ok" =>
                   /\ Len(r.attempts) <= n
                   /\ \A k \in 1..Len(r.attempts) :
                          r.attempts[k].to = r.subscribers[k].whatsapp_id
                   /\ r.success = Count(r.attempts, "resolved")
                   /\ r.failed = Count(r.attempts, "rejected")
                   /\ r.pc = "done" =>
                          /\ r.result = Tally(r.success, r.failed)
                          /\ r.result.success + r.result.failed = n
    /\ \A k \in Requests("broadcast") :
           requests[k].status = 200 =>
               requests[k].stats = broadcasts[requests[k].call].result

\* Three calls are suspended on the client at once: a broadcast that listed one
\* subscriber waits for its send; a later broadcast, which listed two, has had its
\* first send rejected and waits for its second; a sendMessage waits for its own.
C21_Witness ==
    \E a, b \in 1..Len(broadcasts) :
        /\ a < b
        /\ broadcasts[a].pc = "send"
        /\ Len(broadcasts[a].subscribers) = 1
        /\ broadcasts[a].attempts[1].outcome = "pending"
        /\ broadcasts[b].pc = "send"
        /\ Len(broadcasts[b].subscribers) = 2
        /\ broadcasts[b].failed = 1
        /\ Len(broadcasts[b].attempts) = 2
        /\ \E s \in 1..Len(sendCalls) : sendCalls[s].pc = "send"

=============================================================================
